---- MODULE Spec2Model ----
(***************************************************************************)
(* RedHawk Android Hunter backend: the scan registry and HTTP surface      *)
(* (backend/app.py), the scan orchestrator and scanner adapter             *)
(* (backend/scanner.py), the AI report call (backend/ai_reporter.py) and   *)
(* the notification sink (backend/notifications.py).                       *)
(*                                                                         *)
(* Python strings are tuples of one-character strings, so that lower(),    *)
(* strip(), split() and endswith() are computed.  Python values that can   *)
(* have several types are tagged records [t |-> type, v |-> payload].      *)
(* A call that can raise returns [exc |-> message or "", ret |-> value].   *)
(***************************************************************************)
EXTENDS Integers, Sequences, FiniteSets, TLC

\* ---------------------------------------------------------------- bounds
\* Number of accepted submissions the model follows.
MaxScans == 2
\* Longest findings list the scanner's JSON carries.
MaxFindings == 2

\* ---------------------------------------------------------------- strings
UpperChars == <<"A","B","C","D","E","F","G","H","I","J","K","L","M",
                "N","O","P","Q","R","S","T","U","V","W","X","Y","Z">>
LowerChars == <<"a","b","c","d","e","f","g","h","i","j","k","l","m",
                "n","o","p","q","r","s","t","u","v","w","x","y","z">>

char_lower(c) ==
    IF \E i \in DOMAIN UpperChars : UpperChars[i] = c
    THEN LowerChars[CHOOSE i \in DOMAIN UpperChars : UpperChars[i] = c]
    ELSE c

char_upper(c) ==
    IF \E i \in DOMAIN LowerChars : LowerChars[i] = c
    THEN UpperChars[CHOOSE i \in DOMAIN LowerChars : LowerChars[i] = c]
    ELSE c

\* str.lower()
str_lower(s) == [i \in 1..Len(s) |-> char_lower(s[i])]

\* str.upper()
str_upper(s) == [i \in 1..Len(s) |-> char_upper(s[i])]

\* str.title(): a cased character is upper-cased after an uncased one
\* (or at the start) and lower-cased after a cased one.
str_title(s) ==
    LET cased(c) == char_lower(c) # char_upper(c)
    IN  [i \in 1..Len(s) |->
            IF i > 1 /\ cased(s[i - 1]) THEN char_lower(s[i]) ELSE char_upper(s[i])]

\* str.endswith(suffix)
str_endswith(s, suffix) ==
    /\ Len(s) >= Len(suffix)
    /\ SubSeq(s, Len(s) - Len(suffix) + 1, Len(s)) = suffix

RECURSIVE str_lstrip(_)
str_lstrip(s) == IF s # <<>> /\ Head(s) = " " THEN str_lstrip(Tail(s)) ELSE s

RECURSIVE str_rstrip(_)
str_rstrip(s) ==
    IF s # <<>> /\ s[Len(s)] = " " THEN str_rstrip(SubSeq(s, 1, Len(s) - 1)) ELSE s

\* str.strip()
str_strip(s) == str_rstrip(str_lstrip(s))

\* str.split(sep) for a one-character separator: always at least one piece.
RECURSIVE str_split(_, _)
str_split(s, sep) ==
    IF \E i \in 1..Len(s) : s[i] = sep
    THEN LET i == CHOOSE j \in 1..Len(s) : s[j] = sep /\ \A k \in 1..(j - 1) : s[k] # sep
         IN  <<SubSeq(s, 1, i - 1)>> \o str_split(SubSeq(s, i + 1, Len(s)), sep)
    ELSE <<s>>

\* ---------------------------------------------------------- Python values
PyNone == [t |-> "None", v |-> <<>>]
PyStr(s) == [t |-> "str", v |-> s]
PyList(l) == [t |-> "list", v |-> l]
PyDict(d) == [t |-> "dict", v |-> d]

\* truthiness of a value: None, "", [] and {} are falsy
py_truthy(x) ==
    CASE x.t = "None" -> FALSE
      [] x.t = "dict" -> DOMAIN x.v # {}
      [] OTHER -> x.v # <<>>

\* dict.get(key, default)
dict_get(d, key, default) == IF key \in DOMAIN d.v THEN d.v[key] ELSE default

\* str(x): a string is itself, None is "None"; a list or a dict prints with
\* its brackets, which no severity name has.
py_str(x) ==
    CASE x.t = "str" -> x.v
      [] x.t = "None" -> <<"N","o","n","e">>
      [] x.t = "list" -> <<"[", "]">>
      [] OTHER -> <<"{", "}">>

\* str(e) of the AttributeError that x.get raises when x is no dict
no_attribute_get(x) ==
    CASE x.t = "str" -> "'str' object has no attribute 'get'"
      [] x.t = "list" -> "'list' object has no attribute 'get'"
      [] OTHER -> "'NoneType' object has no attribute 'get'"

Return(value) == [exc |-> "", ret |-> value]
Raise(message) == [exc |-> message, ret |-> PyNone]

RECURSIVE SetToSeq(_)
SetToSeq(S) == IF S = {} THEN <<>> ELSE LET e == CHOOSE e \in S : TRUE IN <<e>> \o SetToSeq(S \ {e})

\* list.extend(iterable): a list gives its items, a string its characters,
\* a dict its keys; None is not iterable.
list_extend(lst, x) ==
    CASE x.t = "list" -> Return(lst \o x.v)
      [] x.t = "str" -> Return(lst \o [i \in 1..Len(x.v) |-> PyStr(<<x.v[i]>>)])
      [] x.t = "dict" -> Return(lst \o [i \in 1..Cardinality(DOMAIN x.v) |->
                                            PyStr(<<SetToSeq(DOMAIN x.v)[i]>>)])
      [] OTHER -> Raise("'NoneType' object is not iterable")

\* ------------------------------------------------------------ severities
sev_critical == <<"c","r","i","t","i","c","a","l">>
sev_high == <<"h","i","g","h">>
sev_medium == <<"m","e","d","i","u","m">>
sev_low == <<"l","o","w">>
sev_info == <<"i","n","f","o">>

\* the keys of the severities dict, in the order the code writes them
SeverityKeys == <<sev_critical, sev_high, sev_medium, sev_low, sev_info>>

\* {"critical": 0, "high": 0, "medium": 0, "low": 0, "info": 0}
ZeroCounts == [k \in {SeverityKeys[i] : i \in DOMAIN SeverityKeys} |-> 0]

\* sum(sev_counts.values())
sum_values(counts) ==
    LET RECURSIVE go(_)
        go(i) == IF i = 0 THEN 0 ELSE counts[SeverityKeys[i]] + go(i - 1)
    IN  go(Len(SeverityKeys))

\* One pass of the loop body of aggregate_by_severity; item.get raises on
\* anything that is not a dict.
RECURSIVE aggregate_loop(_, _)
aggregate_loop(findings, severities) ==
    IF findings = <<>> THEN Return(severities)
    ELSE LET item == Head(findings) IN
         IF item.t # "dict"
         THEN Raise(no_attribute_get(item))
         ELSE LET sev0 == str_lower(py_str(dict_get(item, "severity", PyStr(sev_info))))
                  sev == IF sev0 \notin DOMAIN severities THEN sev_info ELSE sev0
              IN  aggregate_loop(Tail(findings), [severities EXCEPT ![sev] = @ + 1])

\* an aggregator that skips a severity it does not know
aggregate_skipping_unknown(findings) ==
    aggregate_loop(SelectSeq(findings, LAMBDA f :
                       f.t = "dict" => str_lower(py_str(dict_get(f, "severity", PyStr(sev_info))))
                                           \in DOMAIN ZeroCounts),
                   ZeroCounts)

aggregate_by_severity(findings) == aggregate_loop(findings, ZeroCounts)

\* ------------------------------------------------------- scanner adapter
\* What the subprocess call can give: the tool is not on the PATH
\* (subprocess.run raises), or it ran with some exit code and stdout.
\* stdout is blank, text that is not JSON, or the text of a JSON value.
StdoutBlank == [kind |-> "blank", value |-> PyNone]
StdoutText == [kind |-> "text", value |-> PyNone]
StdoutJson(value) == [kind |-> "json", value |-> value]

\* The try body of run_mobsfscan with its inner handler for JSONDecodeError.
mobsfscan_try_body(proc) ==
    IF ~proc.installed
    THEN Raise("[Errno 2] No such file or directory: 'mobsfscan'") @@ [printed |-> <<>>]
    ELSE IF proc.stdout.kind = "blank"
    THEN Return(PyList(<<>>)) @@ [printed |-> <<>>]
    ELSE IF proc.stdout.kind = "text"
    THEN Return(PyList(<<>>))
            @@ [printed |-> <<"[scanner] mobsfscan output not JSON, skipping detailed parse.">>]
    ELSE LET data == proc.stdout.value IN
         IF data.t # "dict"
         THEN Raise(no_attribute_get(data)) @@ [printed |-> <<>>]
         ELSE Return(dict_get(data, "findings", PyList(<<>>))) @@ [printed |-> <<>>]

run_mobsfscan_unguarded(proc) == mobsfscan_try_body(proc)

\* run_mobsfscan: the outer handler turns every exception into [].
run_mobsfscan(proc) ==
    LET r == mobsfscan_try_body(proc) IN
    IF r.exc # ""
    THEN Return(PyList(<<>>)) @@ [printed |-> <<"[scanner] mobsfscan failed:", r.exc>>]
    ELSE r

\* ------------------------------------------------------------------ state
VARIABLES
    API_KEYS,            \* app.py: accepted dashboard keys, parsed at import
    OPENROUTER_API_KEY,  \* ai_reporter.py: provider credential, read at import
    SCANS,               \* app.py: the in-memory scan registry, id -> record
    uploads,             \* names of the files under UPLOAD_DIR
    reports,             \* the files under REPORTS_DIR, name -> text
    jobs,                \* the background tasks, id -> position and locals
    alerts,              \* calls of send_telegram_alert, [scan_id, title]
    log,                 \* lines printed by the AI step, [scan_id, line]
    pin,                 \* adapter harness: the subprocess result given
    pout                 \* adapter harness: what run_mobsfscan returned

vars == <<API_KEYS, OPENROUTER_API_KEY, SCANS, uploads, reports,
          jobs, alerts, log, pin, pout>>

\* ----------------------------------------------------------------- inputs
key_good == <<"k","1">>
key_other == <<"z">>

\* values of the DASHBOARD_API_KEYS environment variable
DashboardEnv == { <<>>, key_good, <<" ">> \o key_good \o <<" ", ",", " ">> }

\* values of the X-API-Key header; None when the header is absent
HeaderValues == { PyNone, PyStr(key_good), PyStr(key_other) }

name_apk == <<"a", ".", "A", "p", "k">>
name_txt == <<"a", ".", "a", "p", "k", ".", "t", "x", "t">>
name_bare == <<"a", "p", "k">>

\* names of uploaded files (no path separator in them)
Filenames == { name_apk, name_txt, name_bare }

\* values of the ai form field
AiFields == { <<"T","r","u","e">>, <<"f","a","l","s","e">> }

Digits == <<"1","2","3","4","5","6","7","8","9">>

\* str(uuid.uuid4()): an identifier no earlier scan has
new_uuid(scans) == <<"u", Digits[Cardinality(DOMAIN scans) + 1]>>

\* an identifier no scan ever gets
uuid_unknown == <<"u", "0">>

\* the scan ids a client may ask for
RequestIds == { <<"u", Digits[i]>> : i \in 1..MaxScans } \cup { uuid_unknown }

\* ------------------------------------------------------------ API surface
\* API_KEYS = [k.strip() for k in env.split(",") if k.strip()]
parse_api_keys(env) ==
    LET pieces == str_split(env, ",")
    IN  SelectSeq([i \in 1..Len(pieces) |-> str_strip(pieces[i])], LAMBDA k : k # <<>>)

\* require_api_key: 0 when the request may pass, else the HTTPException's status
require_api_key_open(x_api_key) == 0

require_api_key(x_api_key) ==
    IF API_KEYS = <<>> THEN 0
    ELSE IF x_api_key.t = "str" /\ \E i \in DOMAIN API_KEYS : API_KEYS[i] = x_api_key.v
         THEN 0
         ELSE 401

HttpError(code, detail) == [code |-> code, body |-> [detail |-> detail]]
HttpOk(body) == [code |-> 200, body |-> body]

\* GET /api/status
api_status == HttpOk([status |-> "ok"])

\* GET /
root == HttpOk([message |-> "RedHawk Android Hunter API"])

\* list.sort(key=created_at, reverse=True) of the registry's records
RECURSIVE sort_newest_first(_, _)
sort_newest_first(scans, ids) ==
    IF ids = {} THEN <<>>
    ELSE LET top == CHOOSE i \in ids : \A j \in ids : scans[j].created_at <= scans[i].created_at
         IN  <<scans[top]>> \o sort_newest_first(scans, ids \ {top})

\* GET /api/scans
list_scans(x_api_key) ==
    IF require_api_key(x_api_key) # 0 THEN HttpError(401, "Invalid API key")
    ELSE HttpOk(sort_newest_first(SCANS, DOMAIN SCANS))

\* GET /api/scans/{scan_id}
get_scan(scan_id, x_api_key) ==
    IF require_api_key(x_api_key) # 0 THEN HttpError(401, "Invalid API key")
    ELSE IF scan_id \notin DOMAIN SCANS THEN HttpError(404, "Scan not found")
    ELSE HttpOk(SCANS[scan_id])

\* GET /api/reports/{scan_id}/ai_report
get_ai_report(scan_id, x_api_key) ==
    IF require_api_key(x_api_key) # 0 THEN HttpError(401, "Invalid API key")
    ELSE IF scan_id \notin DOMAIN SCANS THEN HttpError(404, "Scan not found")
    ELSE LET ai_file == SCANS[scan_id].ai_report_file
             report_file == SCANS[scan_id].report_file
             path1 == IF py_truthy(ai_file) /\ ai_file.v \in DOMAIN reports
                      THEN ai_file ELSE PyNone
             path == IF path1 = PyNone /\ py_truthy(report_file)
                        /\ report_file.v \in DOMAIN reports
                     THEN report_file ELSE path1
         IN  IF path = PyNone \/ path.v \notin DOMAIN reports
             THEN HttpError(404, "Report file not found")
             ELSE HttpOk(reports[path.v])

\* the Scan Record start_scan creates
new_scan(scan_id, filename, apk_name, created_at) ==
    [ id |-> scan_id,
      apk_name |-> filename,
      stored_apk |-> apk_name,
      status |-> "queued",
      created_at |-> created_at,
      app_id |-> "",
      device_id |-> "",
      platform |-> "hackerone",
      mode |-> "safe",
      total_findings |-> 0,
      severity_counts |-> ZeroCounts,
      findings_file |-> PyNone,
      report_file |-> PyNone,
      ai_report_file |-> PyNone,
      screenshots_file |-> PyNone,
      error |-> PyNone ]

\* the arguments background_tasks.add_task keeps, and run_scan_job's locals
new_job(apk_name, ai) ==
    [ pc |-> "scheduled", apk_name |-> apk_name, ai |-> ai, result |-> PyNone ]

\* filename.lower().endswith(".apk")
is_apk_filename_any(filename) == TRUE

is_apk_filename(filename) == str_endswith(str_lower(filename), <<".", "a", "p", "k">>)

\* POST /api/scan: the response and the registry, uploads and tasks after it
start_scan(filename, ai, x_api_key) ==
    LET same == [SCANS |-> SCANS, uploads |-> uploads, jobs |-> jobs] IN
    IF require_api_key(x_api_key) # 0
    THEN HttpError(401, "Invalid API key") @@ same
    ELSE IF ~is_apk_filename(filename)
    THEN HttpError(400, "Only .apk files are supported") @@ same
    ELSE LET scan_id == new_uuid(SCANS)
             apk_name == scan_id \o <<"_">> \o filename
             created_at == Cardinality(DOMAIN SCANS) + 1
         IN  HttpOk([id |-> scan_id, status |-> "queued"])
             @@ [ SCANS |-> (scan_id :> new_scan(scan_id, filename, apk_name, created_at)) @@ SCANS,
                  uploads |-> uploads \cup {apk_name},
                  jobs |-> (scan_id :> new_job(apk_name, str_lower(ai) = <<"t","r","u","e">>)) @@ jobs ]

\* ----------------------------------------------------------- orchestrator
\* What a write to the reports directory can do: succeed, fail before the
\* file exists (cannot open), or fail after part of the text is written.
DiskOutcomes == { "ok", "denied", "full" }

\* Path.write_text(data): the type check comes before the file is opened.
write_text(files, name, data, disk) ==
    IF data.t # "str"
    THEN [exc |-> "data must be str, not NoneType", files |-> files]
    ELSE CASE disk = "ok" ->
                [exc |-> "", files |-> (name :> [text |-> data.v, whole |-> TRUE]) @@ files]
           [] disk = "denied" ->
                [exc |-> "[Errno 13] Permission denied", files |-> files]
           [] OTHER ->
                [exc |-> "[Errno 28] No space left on device",
                 files |-> (name :> [text |-> data.v, whole |-> FALSE]) @@ files]

\* json.dumps(findings, indent=2)
json_dumps(findings) == <<"json", findings>>

\* build_basic_report: the report's lines
build_basic_report(apk_name, findings, sev_counts) ==
    LET summary ==
            << <<"# ", apk_name, " - Android Security Report">>, <<>>,
               <<"## Summary">>, <<>>,
               <<"- Total issues: ", sum_values(sev_counts)>>,
               <<"- Critical: ", sev_counts[sev_critical]>>,
               <<"- High: ", sev_counts[sev_high]>>,
               <<"- Medium: ", sev_counts[sev_medium]>>,
               <<"- Low: ", sev_counts[sev_low]>>,
               <<"- Info: ", sev_counts[sev_info]>>, <<>> >>
        section(f) ==
            << <<"### ", str_title(py_str(dict_get(f, "severity", PyStr(sev_info)))), " - ",
                 dict_get(f, "description", PyStr(<<"No description">>))>>, <<>>,
               <<"- Tool: ", dict_get(f, "tool", PyStr(<<"mobsfscan">>))>>, <<>> >>
        RECURSIVE sections(_)
        sections(fs) == IF fs = <<>> THEN <<>> ELSE section(Head(fs)) \o sections(Tail(fs))
    IN  IF findings = <<>>
        THEN summary \o << <<"_No findings were reported by the static scanner._">> >>
        ELSE summary \o << <<"## Findings">>, <<>> >> \o sections(findings)

\* scan_apk, from the findings file to the baseline report
persist_baseline(apk_name, findings, files, disk1, disk2) ==
    LET w1 == write_text(files, apk_name \o <<".findings.json">>,
                         PyStr(json_dumps(findings)), disk1)
        agg == aggregate_by_severity(findings)
        w2 == write_text(w1.files, apk_name \o <<".report.md">>,
                         PyStr(build_basic_report(apk_name, findings, agg.ret)), disk2)
    IN  IF w1.exc # "" THEN w1
        ELSE IF agg.exc # "" THEN [exc |-> agg.exc, files |-> w1.files]
        ELSE w2

\* the Markdown the provider's model returns
ai_markdown == <<"## Executive Summary">>

\* What the chat-completion call can do: raise, or answer with a message
\* whose content is text or None.
ProviderOutcomes == { "raises", "text", "no_content" }

\* ai_generate_report: _get_client, then the provider call
ai_generate_report(provider) ==
    IF ~py_truthy(OPENROUTER_API_KEY)
    THEN Raise("OPENROUTER_API_KEY (or OPENAI_API_KEY) is not set")
    ELSE CASE provider = "raises" -> Raise("Connection error.")
           [] provider = "text" -> Return(PyStr(ai_markdown))
           [] OTHER -> Return(PyNone)

\* scan_apk's AI step: ai_report_file is bound to the path before the text
\* is written; the handler prints and leaves the locals as they are.
ai_step(apk_name, files, provider, disk) ==
    LET gen == ai_generate_report(provider)
        path == apk_name \o <<".ai_report.md">>
        w == write_text(files, path, gen.ret, disk)
    IN  IF gen.exc # ""
        THEN [ai_report_file |-> PyNone, files |-> files,
              printed |-> <<"[scanner] AI report failed:", gen.exc>>]
        ELSE IF w.exc # ""
        THEN [ai_report_file |-> PyStr(path), files |-> w.files,
              printed |-> <<"[scanner] AI report failed:", w.exc>>]
        ELSE [ai_report_file |-> PyStr(path), files |-> w.files, printed |-> <<>>]

\* scan_apk: the adapter's findings, the two baseline files, the AI step,
\* and the dict it returns.  An exception outside the AI step leaves it.
scan_apk(apk_name, ai, files, proc, disk1, disk2, provider, disk3) ==
    LET scanned == run_mobsfscan(proc)
        extended == list_extend(<<>>, scanned.ret)
        findings == extended.ret
        base == persist_baseline(apk_name, findings, files, disk1, disk2)
        aistep == IF ai THEN ai_step(apk_name, base.files, provider, disk3)
                  ELSE [ai_report_file |-> PyNone, files |-> base.files, printed |-> <<>>]
    IN  IF scanned.exc # "" THEN [exc |-> scanned.exc, ret |-> PyNone, files |-> files, printed |-> <<>>]
        ELSE IF extended.exc # "" THEN [exc |-> extended.exc, ret |-> PyNone, files |-> files, printed |-> <<>>]
        ELSE IF base.exc # "" THEN [exc |-> base.exc, ret |-> PyNone, files |-> base.files, printed |-> <<>>]
        ELSE [ exc |-> "",
               ret |-> [ apk_name |-> apk_name,
                         findings |-> findings,
                         severity_counts |-> aggregate_by_severity(findings).ret,
                         total_findings |-> Len(findings),
                         findings_file |-> PyStr(apk_name \o <<".findings.json">>),
                         report_file |-> PyStr(apk_name \o <<".report.md">>),
                         ai_report_file |-> aistep.ai_report_file,
                         screenshots_file |-> PyNone ],
               files |-> aistep.files,
               printed |-> aistep.printed ]

\* run_scan_job's scan.update(...) from the result.  scan_apk's dict has every
\* key and its severity_counts has five, so no .get default is used and
\* `not sev_counts` is false.
complete_scan(scan, result) ==
    [ scan EXCEPT
        !.status = "completed",
        !.apk_name = result.apk_name,
        !.findings_file = IF py_truthy(result.findings_file) THEN result.findings_file
                          ELSE PyStr(result.apk_name \o <<".findings.json">>),
        !.report_file = IF py_truthy(result.report_file) THEN result.report_file
                        ELSE PyStr(result.apk_name \o <<".report.md">>),
        !.ai_report_file = result.ai_report_file,
        !.screenshots_file = result.screenshots_file,
        !.total_findings = result.total_findings,
        !.severity_counts = result.severity_counts ]

fail_scan_silent(scan, e) == [scan EXCEPT !.status = "error"]

\* run_scan_job's handler: status error, error = str(e)
fail_scan(scan, e) == [scan EXCEPT !.status = "error", !.error = PyStr(<<e>>)]

\* How the notification module stands when a job calls it: the import failed
\* and app.py's stubs are in place, or the module is there without or with
\* its token and chat id.  None of it is kept by the server, so it is drawn
\* at the call.
NotifierStates == { "stub", "unconfigured", "configured" }

\* What requests.post can do
PostOutcomes == { "ok", "raises" }

\* scan.get('status','?').upper()
status_upper(status) ==
    CASE status = "queued" -> "QUEUED"
      [] status = "running" -> "RUNNING"
      [] status = "completed" -> "COMPLETED"
      [] status = "error" -> "ERROR"

\* format_scan_summary: the stub gives "", the module a summary of the record
format_scan_summary(notifier, scan) ==
    IF notifier = "stub" THEN <<>>
    ELSE << <<"APK: ", scan.apk_name>>, <<"Status: ", status_upper(scan.status)>>,
            <<"Findings: ", scan.total_findings>>,
            <<"Severity: ", scan.severity_counts>> >>

\* send_telegram_alert: a no-op unless configured; a failing post is swallowed.
\* posted says whether requests.post was called.
send_telegram_alert(notifier, post) == [exc |-> "", posted |-> notifier = "configured"]

\* ------------------------------------------------ what the scanner prints
item_high == PyDict([severity |-> PyStr(<<"H","I","G","H">>),
                     description |-> PyStr(<<"Insecure storage">>)])
item_medium == PyDict([severity |-> PyStr(sev_medium)])
item_missing == PyDict([description |-> PyStr(<<"Debuggable">>)])
item_bogus == PyDict([severity |-> PyStr(<<"s","e","v","e","r","e">>)])
item_null == PyDict([severity |-> PyNone])
item_text == PyStr(<<"x">>)

\* the items of a findings array: dicts with a severity in some spelling,
\* without one, with an unknown one or null, and an item that is no dict
FindingItems == { item_high, item_medium, item_missing, item_bogus, item_null, item_text }

FindingsLists == UNION { [1..n -> FindingItems] : n \in 0..MaxFindings }

\* JSON documents the tool may print: not an object, an object without
\* "findings", and objects whose "findings" is null, a string or an array
JsonValues ==
    { PyList(<<>>), PyDict([results |-> PyList(<<>>)]),
      PyDict([findings |-> PyNone]), PyDict([findings |-> PyStr(<<"x">>)]) }
    \cup { PyDict([findings |-> PyList(l)]) : l \in FindingsLists }

Stdouts == { StdoutBlank, StdoutText } \cup { StdoutJson(v) : v \in JsonValues }

ExitCodes == { 0, 1 }

ProcResults ==
    { [installed |-> FALSE, returncode |-> 0, stdout |-> StdoutBlank] }
    \cup { [installed |-> TRUE, returncode |-> rc, stdout |-> out] :
             rc \in ExitCodes, out \in Stdouts }

\* a findings array of full length: a known severity in capitals, an unknown
\* one and a missing one in turn
sample_findings ==
    [i \in 1..MaxFindings |->
        IF i % 3 = 1 THEN item_high ELSE IF i % 3 = 2 THEN item_bogus ELSE item_missing]

RanWith(returncode, out) == [installed |-> TRUE, returncode |-> returncode, stdout |-> out]

\* the subprocess results the server's scans are run on, one of each kind
ServerProcs ==
    { [installed |-> FALSE, returncode |-> 0, stdout |-> StdoutBlank],
      RanWith(0, StdoutBlank),
      RanWith(1, StdoutText),
      RanWith(0, StdoutJson(PyList(<<>>))),
      RanWith(0, StdoutJson(PyDict([findings |-> PyList(<<>>)]))),
      RanWith(1, StdoutJson(PyDict([findings |-> PyList(sample_findings)]))),
      RanWith(0, StdoutJson(PyDict([findings |-> PyNone]))),
      RanWith(0, StdoutJson(PyDict([findings |-> PyList(<<item_text>>)]))) }

\* The disk at the two baseline writes: the second is not reached when the
\* first fails.
BaselineDisks ==
    { <<"ok", d>> : d \in DiskOutcomes } \cup { <<d, "ok">> : d \in DiskOutcomes }

\* The provider and the disk at the AI step: the write is reached only with
\* an answer, and neither without the ai flag.
AiEnv(ai) ==
    IF ai
    THEN { <<p, "ok">> : p \in ProviderOutcomes } \cup { <<"text", d>> : d \in DiskOutcomes }
    ELSE { <<"text", "ok">> }

\* ------------------------------------------------- the background task
Job(id) == jobs[id]

JobStartSkips(id) ==
    /\ id \in DOMAIN jobs /\ Job(id).pc = "scheduled"
    /\ jobs' = [jobs EXCEPT ![id].pc = "done"]
    /\ UNCHANGED <<API_KEYS, OPENROUTER_API_KEY, SCANS, uploads, reports,
                   alerts, log, pin, pout>>

\* run_scan_job, up to status = "running"
JobStart(id) ==
    /\ id \in DOMAIN jobs /\ Job(id).pc = "scheduled"
    /\ IF id \notin DOMAIN SCANS
       THEN /\ jobs' = [jobs EXCEPT ![id].pc = "done"]
            /\ UNCHANGED SCANS
       ELSE /\ SCANS' = [SCANS EXCEPT ![id].status = "running"]
            /\ jobs' = [jobs EXCEPT ![id].pc = "scan_apk"]
    /\ UNCHANGED <<API_KEYS, OPENROUTER_API_KEY, uploads, reports,
                   alerts, log, pin, pout>>

\* run_scan_job: the call of scan_apk; when it raises, the handler's update
ScanApk(id) ==
    /\ id \in DOMAIN jobs /\ Job(id).pc = "scan_apk"
    /\ \E proc \in ServerProcs, disks \in BaselineDisks, aienv \in AiEnv(Job(id).ai) :
         LET r == scan_apk(Job(id).apk_name, Job(id).ai, reports,
                           proc, disks[1], disks[2], aienv[1], aienv[2])
         IN  /\ reports' = r.files
             /\ log' = IF r.printed = <<>> THEN log
                       ELSE log \cup {[scan_id |-> id, line |-> r.printed[1]]}
             /\ IF r.exc # ""
                THEN /\ SCANS' = [SCANS EXCEPT ![id] = fail_scan(@, r.exc)]
                     /\ jobs' = [jobs EXCEPT ![id].pc = "notify_failed"]
                ELSE /\ jobs' = [jobs EXCEPT ![id] = [@ EXCEPT !.pc = "update", !.result = r.ret]]
                     /\ UNCHANGED SCANS
    /\ UNCHANGED <<API_KEYS, OPENROUTER_API_KEY, uploads,
                   alerts, pin, pout>>

\* run_scan_job: the record's update to completed from scan_apk's result
Complete(id) ==
    /\ id \in DOMAIN jobs /\ Job(id).pc = "update"
    /\ SCANS' = [SCANS EXCEPT ![id] = complete_scan(@, Job(id).result)]
    /\ jobs' = [jobs EXCEPT ![id] = [@ EXCEPT !.pc = "notify_completed", !.result = PyNone]]
    /\ UNCHANGED <<API_KEYS, OPENROUTER_API_KEY, uploads, reports,
                   alerts, log, pin, pout>>

NotifyCompletedUnguarded(id) ==
    /\ id \in DOMAIN jobs /\ Job(id).pc = "notify_completed"
    /\ \E notifier \in NotifierStates, post \in PostOutcomes :
         IF format_scan_summary(notifier, SCANS[id]) = <<>>
         THEN /\ jobs' = [jobs EXCEPT ![id].pc = "done"]
              /\ UNCHANGED <<SCANS, alerts>>
         ELSE /\ alerts' = alerts \cup {[scan_id |-> id, title |-> "RedHawk Scan Completed"]}
              /\ IF send_telegram_alert(notifier, post).posted /\ post = "raises"
                 THEN /\ SCANS' = [SCANS EXCEPT ![id] = fail_scan(@, "Max retries exceeded")]
                      /\ jobs' = [jobs EXCEPT ![id].pc = "notify_failed"]
                 ELSE /\ jobs' = [jobs EXCEPT ![id].pc = "done"]
                      /\ UNCHANGED SCANS
    /\ UNCHANGED <<API_KEYS, OPENROUTER_API_KEY, uploads, reports,
                   log, pin, pout>>

\* run_scan_job: the success notification, inside its own try block
NotifyCompleted(id) ==
    /\ id \in DOMAIN jobs /\ Job(id).pc = "notify_completed"
    /\ \E notifier \in NotifierStates, post \in PostOutcomes :
         IF format_scan_summary(notifier, SCANS[id]) = <<>>
            \/ send_telegram_alert(notifier, post).exc # ""
         THEN UNCHANGED alerts
         ELSE alerts' = alerts \cup {[scan_id |-> id, title |-> "RedHawk Scan Completed"]}
    /\ jobs' = [jobs EXCEPT ![id].pc = "done"]
    /\ UNCHANGED <<API_KEYS, OPENROUTER_API_KEY, SCANS, uploads, reports,
                   log, pin, pout>>

\* run_scan_job: the failure notification of the handler
NotifyFailed(id) ==
    /\ id \in DOMAIN jobs /\ Job(id).pc = "notify_failed"
    /\ \E notifier \in NotifierStates, post \in PostOutcomes :
         IF send_telegram_alert(notifier, post).exc # ""
         THEN UNCHANGED alerts
         ELSE alerts' = alerts \cup {[scan_id |-> id, title |-> "RedHawk Scan Failed"]}
    /\ jobs' = [jobs EXCEPT ![id].pc = "done"]
    /\ UNCHANGED <<API_KEYS, OPENROUTER_API_KEY, SCANS, uploads, reports,
                   log, pin, pout>>

\* ------------------------------------------------------- HTTP requests
\* A GET handler changes nothing the server keeps: its response is the value
\* of its operator in the state the request meets.
GetStatus ==
    /\ api_status.code = 200
    /\ UNCHANGED vars

GetRoot ==
    /\ root.code = 200
    /\ UNCHANGED vars

ListScans ==
    /\ \A key \in HeaderValues : list_scans(key).code \in {200, 401}
    /\ UNCHANGED vars

GetScan ==
    /\ \A key \in HeaderValues, scan_id \in RequestIds :
         get_scan(scan_id, key).code \in {200, 401, 404}
    /\ UNCHANGED vars

GetAiReport ==
    /\ \A key \in HeaderValues, scan_id \in RequestIds :
         get_ai_report(scan_id, key).code \in {200, 401, 404}
    /\ UNCHANGED vars

\* POST /api/scan; the model follows MaxScans accepted submissions
StartScan == \E key \in HeaderValues, filename \in Filenames, ai \in AiFields :
    LET r == start_scan(filename, ai, key) IN
    /\ r.code = 200 => Cardinality(DOMAIN SCANS) < MaxScans
    /\ SCANS' = r.SCANS
    /\ uploads' = r.uploads
    /\ jobs' = r.jobs
    /\ UNCHANGED <<API_KEYS, OPENROUTER_API_KEY, reports, alerts, log, pin, pout>>

\* ---------------------------------------------------------- the server
NoProc == [installed |-> FALSE, returncode |-> 0, stdout |-> StdoutBlank]
NotCalled == [exc |-> "", ret |-> PyNone, printed |-> <<"not called">>]

Init ==
    /\ API_KEYS \in { parse_api_keys(env) : env \in DashboardEnv }
    /\ OPENROUTER_API_KEY \in { PyNone, PyStr(<<"s","k">>) }
    /\ SCANS = <<>>
    /\ uploads = {}
    /\ reports = <<>>
    /\ jobs = <<>>
    /\ alerts = {}
    /\ log = {}
    /\ pin = NoProc
    /\ pout = NotCalled

JobStep(id) ==
    \/ JobStart(id)
    \/ ScanApk(id)
    \/ Complete(id)
    \/ NotifyCompleted(id)
    \/ NotifyFailed(id)

ScanIds == { <<"u", Digits[i]>> : i \in 1..MaxScans }

Next ==
    \/ GetStatus
    \/ GetRoot
    \/ ListScans
    \/ GetScan
    \/ GetAiReport
    \/ StartScan
    \/ \E id \in ScanIds : JobStep(id)

Spec == Init /\ [][Next]_vars

\* ------------------------------------------------ the adapter on its own
AdapterInit ==
    /\ API_KEYS = <<>>
    /\ OPENROUTER_API_KEY = PyNone
    /\ SCANS = <<>>
    /\ uploads = {}
    /\ reports = <<>>
    /\ jobs = <<>>
    /\ alerts = {}
    /\ log = {}
    /\ pin \in ProcResults
    /\ pout = NotCalled

CallAdapter ==
    /\ pout = NotCalled
    /\ pout' = run_mobsfscan(pin)
    /\ UNCHANGED <<API_KEYS, OPENROUTER_API_KEY, SCANS, uploads, reports,
                   jobs, alerts, log, pin>>

AdapterNext == CallAdapter

AdapterSpec == AdapterInit /\ [][AdapterNext]_vars

\* ------------------------------------------------------------ fair runs
\* Every scheduled background task is run, and each of its calls returns or
\* raises: a task that can take a step eventually takes it.
LiveSpec == Spec /\ \A id \in ScanIds : WF_vars(JobStep(id))

\* ----------------------------------------------------------- properties
Status(id) == SCANS[id].status

Logged(id) == [scan_id |-> id, line |-> "[scanner] AI report failed:"] \in log

Alerted(id, title) == [scan_id |-> id, title |-> title] \in alerts

\* C1: a record's status only moves queued -> running -> completed or
\* queued -> running -> error; a record starts queued, is never removed, and
\* a completed or error record keeps its status.
C1_StatusTransitions ==
    [][ /\ \A id \in DOMAIN SCANS :
             /\ id \in DOMAIN SCANS'
             /\ \/ SCANS'[id].status = Status(id)
                \/ <<Status(id), SCANS'[id].status>> \in
                     { <<"queued", "running">>, <<"running", "completed">>,
                       <<"running", "error">> }
        /\ \A id \in DOMAIN SCANS' \ DOMAIN SCANS : SCANS'[id].status = "queued" ]_vars

\* a completed record whose notification has run, beside a record in error
C1_Witness ==
    \E id1 \in DOMAIN SCANS, id2 \in DOMAIN SCANS :
        /\ Status(id1) = "completed" /\ jobs[id1].pc = "done"
        /\ Alerted(id1, "RedHawk Scan Completed")
        /\ Status(id2) = "error"

\* C2: every record in the registry eventually is completed or error, with
\* no request from the client, when every scheduled task is run.
C2_EventuallyTerminal ==
    \A id \in ScanIds :
        (id \in DOMAIN SCANS) ~> (id \in DOMAIN SCANS /\ Status(id) \in {"completed", "error"})

\* both scans submitted before either task has started, and later both over
C2_Witness ==
    /\ Cardinality(DOMAIN SCANS) = MaxScans
    /\ \A id \in DOMAIN SCANS : jobs[id].pc = "done" /\ Status(id) \in {"completed", "error"}

\* the names a record holds of files under the reports directory
ArtifactNames(scan) ==
    { f \in { scan.findings_file, scan.report_file, scan.ai_report_file } : f # PyNone }

\* C3: every artifact name a completed record holds names a file that is in
\* the reports directory.
C3_ArtifactsWritten ==
    \A id \in DOMAIN SCANS :
        Status(id) = "completed" =>
            \A f \in ArtifactNames(SCANS[id]) : f.v \in DOMAIN reports

\* the AI step of a completed scan failed: the flag was set and the AI report
\* is not in the reports directory in full
AiFailed(id) ==
    /\ Status(id) = "completed" /\ jobs[id].ai
    /\ LET path == jobs[id].apk_name \o <<".ai_report.md">>
       IN  ~(path \in DOMAIN reports /\ reports[path].whole)

\* C4: when the AI step fails, the failure is logged, the record's
\* ai_report_file stays null, and the scan is completed, not error.
C4_AiFailureLeavesUnset ==
    \A id \in DOMAIN SCANS :
        /\ AiFailed(id) => Logged(id) /\ SCANS[id].ai_report_file = PyNone
        /\ Logged(id) => Status(id) # "error"

\* C5: with an accepted key, the report of a queued or running scan is 404;
\* of a completed scan whose AI step succeeded, the AI report's text; of a
\* completed scan without the flag or whose AI step failed, the baseline
\* report's text.
C5_ReportByStatus ==
    \A id \in DOMAIN SCANS :
        LET r == get_ai_report(id, PyStr(key_good))
            name == jobs[id].apk_name
        IN  /\ Status(id) \in {"queued", "running"} => r.code = 404
            /\ Status(id) = "completed" /\ jobs[id].ai /\ ~AiFailed(id) =>
                 r = HttpOk([text |-> ai_markdown, whole |-> TRUE])
            /\ Status(id) = "completed" /\ (~jobs[id].ai \/ AiFailed(id)) =>
                 /\ r.code = 200
                 /\ r.body = reports[name \o <<".report.md">>]
                 /\ r.body.whole

\* the header value is one of the configured keys
KeyConfigured(key) == key \in { PyStr(API_KEYS[i]) : i \in DOMAIN API_KEYS }

\* a request with this header value is let through
KeyPasses(key) == API_KEYS = <<>> \/ KeyConfigured(key)

\* POST /api/scan leaves the registry, the uploads and the tasks as they are
NoEffect(r) == r.SCANS = SCANS /\ r.uploads = uploads /\ r.jobs = jobs

\* the four endpoints that call require_api_key answer 401, and change
\* nothing, for a header value that is not a configured key; none does
\* when no keys are configured
GatedEndpointsReject ==
    \A key \in HeaderValues :
        LET code == IF KeyPasses(key) THEN {200, 400, 404} ELSE {401} IN
        /\ list_scans(key).code \in code
        /\ \A scan_id \in RequestIds :
             /\ get_scan(scan_id, key).code \in code
             /\ get_ai_report(scan_id, key).code \in code
        /\ \A filename \in Filenames, ai \in AiFields :
             LET r == start_scan(filename, ai, key)
             IN  r.code \in code /\ (~KeyPasses(key) => NoEffect(r))

\* C6 as stated: with keys configured, every endpoint, GET / and
\* GET /api/status among them, answers 401 to a header value that is absent
\* or not configured.
C6_EveryEndpointRejects ==
    /\ GatedEndpointsReject
    /\ API_KEYS # <<>> /\ (\E key \in HeaderValues : ~KeyConfigured(key))
         => root.code = 401 /\ api_status.code = 401

\* C6 amended: GET /api/scans, GET /api/scans/{id},
\* GET /api/reports/{id}/ai_report and POST /api/scan answer 401 and change
\* nothing for a header value that is absent or not configured; GET / and
\* GET /api/status answer 200 whatever the header; with no keys configured
\* no request is answered 401.
C6_GatedEndpointsReject ==
    /\ GatedEndpointsReject
    /\ root.code = 200 /\ api_status.code = 200

\* keys are configured and a finished scan is in the registry: its record is
\* refused to a wrong key and to no key, and given to the right one
C6_Witness ==
    /\ API_KEYS # <<>>
    /\ \E id \in DOMAIN SCANS :
         /\ Status(id) = "completed"
         /\ get_scan(id, PyStr(key_other)).code = 401
         /\ get_scan(id, PyNone).code = 401
         /\ get_scan(id, PyStr(key_good)).code = 200

ErrorMessage(id) == SCANS[id].error.v[1]

FileState(id, suffix) ==
    LET path == jobs[id].apk_name \o <<suffix>>
    IN  IF path \notin DOMAIN reports THEN "absent"
        ELSE IF reports[path].whole THEN "whole" ELSE "part"

\* C7: a record in error holds the message of the exception that ended
\* scan_apk outside the AI step, and no artifact name; the failure
\* notification is sent for it and the success notification is not; no
\* scan gets both, and a record not in error holds no message.
C7_ErrorOutcome ==
    \A id \in DOMAIN SCANS :
        /\ ~(Alerted(id, "RedHawk Scan Completed") /\ Alerted(id, "RedHawk Scan Failed"))
        /\ Status(id) # "error" =>
             SCANS[id].error = PyNone /\ ~Alerted(id, "RedHawk Scan Failed")
        /\ Status(id) = "error" =>
             /\ SCANS[id].error.t = "str"
             /\ ArtifactNames(SCANS[id]) = {}
             /\ SCANS[id].total_findings = 0
             /\ ~Alerted(id, "RedHawk Scan Completed")
             /\ jobs[id].pc = "done" => Alerted(id, "RedHawk Scan Failed")
             /\ ~Logged(id) /\ FileState(id, ".ai_report.md") = "absent"
             /\ LET files == <<FileState(id, ".findings.json"), FileState(id, ".report.md")>>
                IN  CASE ErrorMessage(id) = "'NoneType' object is not iterable" ->
                           files = <<"absent", "absent">>
                      [] ErrorMessage(id) = "'str' object has no attribute 'get'" ->
                           files = <<"whole", "absent">>
                      [] ErrorMessage(id) = "[Errno 13] Permission denied" ->
                           files \in { <<"absent", "absent">>, <<"whole", "absent">> }
                      [] ErrorMessage(id) = "[Errno 28] No space left on device" ->
                           files \in { <<"part", "absent">>, <<"whole", "part">> }
                      [] OTHER -> FALSE

\* one scan ended by the adapter's result, one by a failed write, both
\* notified
C7_Witness ==
    \E id1 \in DOMAIN SCANS, id2 \in DOMAIN SCANS :
        /\ Status(id1) = "error" /\ Status(id2) = "error"
        /\ ErrorMessage(id1) = "'str' object has no attribute 'get'"
        /\ ErrorMessage(id2) = "[Errno 13] Permission denied"
        /\ Alerted(id1, "RedHawk Scan Failed") /\ Alerted(id2, "RedHawk Scan Failed")

\* C8 as stated: run_mobsfscan does not raise, and returns [] when the tool
\* is absent, exits non-zero, or prints text that is not JSON.
C8_EmptyOnAnyFailure ==
    pout # NotCalled =>
        /\ pout.exc = ""
        /\ (~pin.installed \/ pin.returncode # 0 \/ pin.stdout.kind = "text")
             => pout.ret = PyList(<<>>)

\* C8 amended: run_mobsfscan does not raise; it returns [] when the tool is
\* absent or prints nothing, text that is not JSON, or JSON that is no
\* object or has no "findings"; the exit code is not looked at, so a tool
\* that exits non-zero and prints a JSON object gives that object's
\* "findings".
C8_EmptyUnlessFindingsPrinted ==
    pout # NotCalled =>
        /\ pout.exc = ""
        /\ LET out == pin.stdout
               printed_findings ==
                   /\ pin.installed /\ out.kind = "json" /\ out.value.t = "dict"
                   /\ "findings" \in DOMAIN out.value.v
           IN  IF printed_findings THEN pout.ret = out.value.v["findings"]
               ELSE pout.ret = PyList(<<>>)

\* the tool exited non-zero and the adapter returned the findings it printed
C8_Witness ==
    /\ pout # NotCalled
    /\ pin.installed /\ pin.returncode # 0
    /\ pout.ret.t = "list" /\ Len(pout.ret.v) = MaxFindings

\* the last four characters are ".apk" in any mix of cases
EndsInApk(filename) ==
    /\ Len(filename) >= 4
    /\ filename[Len(filename) - 3] = "."
    /\ filename[Len(filename) - 2] \in {"a", "A"}
    /\ filename[Len(filename) - 1] \in {"p", "P"}
    /\ filename[Len(filename)] \in {"k", "K"}

FilenameSamples ==
    Filenames \cup
    { <<>>, <<".", "a", "p", "k">>, <<"a", ".", "a", "p", "k">>, <<"a", ".", "A", "P", "K">>,
      <<"a", ".", "a", "p", "k", " ">>, <<"a", ".", "a", "p">>, <<"a", "a", "p", "k">>,
      <<"a", ".", "a", "p", "k", ".">> }

\* C9: a submission whose file name does not end in .apk, in any mix of
\* cases, is answered 400 (401 when its key is refused) and adds no record,
\* stores no upload and schedules no task.
C9_NonApkRejected ==
    \A filename \in FilenameSamples, ai \in AiFields, key \in HeaderValues :
        ~EndsInApk(filename) =>
            LET r == start_scan(filename, ai, key)
            IN  /\ NoEffect(r)
                /\ r.code = IF KeyPasses(key) THEN 400 ELSE 401

\* one upload is stored and its scan is running: a .txt name sent with the
\* right key is answered 400
C9_Witness ==
    /\ Cardinality(DOMAIN SCANS) = 1 /\ Cardinality(uploads) = 1
    /\ \E id \in DOMAIN jobs : jobs[id].pc = "scan_apk"
    /\ start_scan(name_txt, <<"T","r","u","e">>, PyStr(key_good)).code = 400
    /\ ~NoEffect(start_scan(name_apk, <<"T","r","u","e">>, PyStr(key_good)))

\* the bucket each item of FindingItems belongs to, item by item
Bucket(item) ==
    CASE item = item_high -> sev_high
      [] item = item_medium -> sev_medium
      [] OTHER -> sev_info

\* for every list of finding dicts the aggregator returns five counts, each
\* the number of items of its bucket, that sum to the list's length
AggregateCounts ==
    \A fs \in FindingsLists :
        (\A i \in 1..Len(fs) : fs[i].t = "dict") =>
            LET r == aggregate_by_severity(fs)
            IN  /\ r.exc = ""
                /\ DOMAIN r.ret = { sev_critical, sev_high, sev_medium, sev_low, sev_info }
                /\ \A k \in DOMAIN r.ret :
                     r.ret[k] = Cardinality({ i \in 1..Len(fs) : Bucket(fs[i]) = k })
                /\ sum_values(r.ret) = Len(fs)

CountsTotal(counts) ==
    counts[sev_critical] + counts[sev_high] + counts[sev_medium] + counts[sev_low]
        + counts[sev_info]

\* C10: the aggregator's five counts sum to the list's length, a missing or
\* unknown severity counted as info; and every record's total_findings is
\* the sum of its severity_counts, 0 unless the record is completed.
C10_CountsSumToTotal ==
    /\ AggregateCounts
    /\ \A id \in DOMAIN SCANS :
         /\ SCANS[id].total_findings = CountsTotal(SCANS[id].severity_counts)
         /\ Status(id) # "completed" => SCANS[id].total_findings = 0

\* a completed record of a full-length list, with a count under high and
\* one under info
C10_Witness ==
    \E id \in DOMAIN SCANS :
        /\ Status(id) = "completed"
        /\ SCANS[id].total_findings = MaxFindings
        /\ SCANS[id].severity_counts[sev_high] >= 1
        /\ SCANS[id].severity_counts[sev_info] >= 1

====
